---- MODULE Spec2Model ----
(***************************************************************************)
(* HoloPy: ScatteringTheory._calc_field / _calc_cross_sections             *)
(* (holopy/scattering/theory/scatteringtheory.py) and cartesian_distance   *)
(* / rsq (holopy/core/math.py).                                            *)
(*                                                                         *)
(* Numbers.  Angles are measured in units of pi, so 2*pi is the integer    *)
(* TwoPi and the wavelengths are chosen to divide TwoPi*medium_index: the  *)
(* wavevector is then an exact integer.  A phase factor exp(-i*a) is kept  *)
(* as its exponent -a (never reduced), a complex field as the bag of its   *)
(* terms [raw, ph]: raw is the kernel output it comes from (the record of  *)
(* the kernel call's arguments, the kernel being opaque) and ph the sum of *)
(* the phase exponents it was multiplied by.  Adding fields is bag union.  *)
(* A square root is kept as its radicand, a float quotient as a reduced    *)
(* fraction or nan / inf.                                                  *)
(***************************************************************************)
EXTENDS Integers, Sequences, FiniteSets, Bags

VARIABLES pc, call, i, field, events, ret

vars == <<pc, call, i, field, events, ret>>

\* ---------------------------------------------------------------- bounds
MaxComponents == 2      \* components of a composite scatterer
MaxChannels == 2        \* illumination channels of a schema
MaxDim == 3             \* dimension of the points given to cartesian_distance
MaxLen == 3             \* length of the arrays given to rsq

TwoPi == 2              \* 2*np.pi, in units of pi

\* ------------------------------------------------------ values and inputs
None == <<>>

Centers == {None, <<0, 0, 1>>, <<1, 0, 2>>}

Sphere(center) == [kind |-> "Sphere", center |-> center, parts |-> <<>>, sel |-> 0]

SphereSet == {Sphere(c) : c \in Centers}

SeqsUpTo(S, n) == UNION {[1..m -> S] : m \in 0..n}

\* a composite: an ordered collection of spheres, with a center of its own
CompositeSet ==
  {[kind |-> "Scatterers", center |-> c, parts |-> p, sel |-> 0] :
      c \in Centers, p \in SeqsUpTo(SphereSet, MaxComponents)}

ScattererSet == SphereSet \cup CompositeSet

\* a theory is known by the scatterer variants its kernel handles directly
TheorySet == {[name |-> "theory", handles |-> h] : h \in SUBSET {"Sphere", "Scatterers"}}

Wavelens == {1, 2}
Polarizations == {1, 2}

\* illum_wavelen and illum_polarization are indexed by illumination channel;
\* one channel stands for the scalar case
Schemas(n) ==
  {[illum_wavelen |-> w, illum_polarization |-> p, medium_index |-> 1] :
      w \in [1..n -> Wavelens], p \in [1..n -> Polarizations]}

ScalarSchemaSet == Schemas(1)

MultiSchemaSet == UNION {Schemas(n) : n \in 2..MaxChannels}

\* what sphere_coords does with origin None is decided outside this file
EnvSet == [origin_required : BOOLEAN]

NoError == [type |-> "None", args |-> <<>>]
Exception(type, args) == [type |-> type, args |-> args]

Outcome(err, val, evs) == [err |-> err, val |-> val, events |-> evs]
Raise(err, evs) == Outcome(err, EmptyBag, evs)
Return(val, evs) == Outcome(NoError, val, evs)

Event(ev, scat, origin, k, pol) ==
  [ev |-> ev, scat |-> scat, origin |-> origin, k |-> k, pol |-> pol]

\* ---------------------------------------------------- collaborators
_can_handle(self, scatterer) == scatterer.kind \in self.handles

get_component_list(scatterer) == scatterer.parts

select(scatterer, illum) ==
  [scatterer EXCEPT !.sel = illum,
                    !.parts = [j \in DOMAIN scatterer.parts |->
                                  [scatterer.parts[j] EXCEPT !.sel = illum]]]

sphere_coords(schema, origin, k) == [origin |-> origin, wavevec |-> k]

_raw_fields(pos, s, medium_wavevec, medium_index, illum_polarization) ==
  SetToBag({[raw |-> [pos |-> pos, scat |-> s, medium_wavevec |-> medium_wavevec,
                      medium_index |-> medium_index,
                      illum_polarization |-> illum_polarization],
             ph |-> 0]})

clean_concat(fields, dim) == [illumination |-> dim, data |-> fields]

\* field * exp(i*p): every term's exponent grows by p
TimesPhase(fld, p) ==
  [t \in {[raw |-> e.raw, ph |-> e.ph + p] : e \in DOMAIN fld} |->
      fld[[raw |-> t.raw, ph |-> t.ph - p]]]

\* ------------------------------------------------- scatteringtheory.py
wavevec(a) == (TwoPi * a.medium_index) \div a.illum_wavelen[1]

\* get_field without the test for a missing center
get_field_Unchecked(self, scatterer, schema, env, s) ==
  LET k == wavevec(schema)
      pol == schema.illum_polarization[1]
      coordsEv == Event("sphere_coords", s, s.center, k, pol)
      kernelEv == Event("_raw_fields", s, s.center, k, pol)
      positions == sphere_coords(schema, s.center, k)
      fld == _raw_fields(positions, s, k, schema.medium_index, pol)
  IN IF s.center = None /\ env.origin_required
     THEN Raise(Exception("ValueError", <<>>), <<coordsEv>>)
     ELSE IF s.center = None
     THEN Raise(Exception("TypeError", <<>>), <<coordsEv, kernelEv>>)
     ELSE Return(TimesPhase(fld, -(k * s.center[3])), <<coordsEv, kernelEv>>)

\* get_field multiplying the field by the phase a second time
get_field_PhaseTwice(self, scatterer, schema, env, s) ==
  IF scatterer.kind = "Sphere" /\ scatterer.center = None
  THEN Raise(Exception("MissingParameter", <<"center">>), <<>>)
  ELSE
    LET k == wavevec(schema)
        pol == schema.illum_polarization[1]
        coordsEv == Event("sphere_coords", s, s.center, k, pol)
        kernelEv == Event("_raw_fields", s, s.center, k, pol)
        positions == sphere_coords(schema, s.center, k)
        fld == _raw_fields(positions, s, k, schema.medium_index, pol)
    IN IF s.center = None /\ env.origin_required
       THEN Raise(Exception("ValueError", <<>>), <<coordsEv>>)
       ELSE IF s.center = None
       THEN Raise(Exception("TypeError", <<>>), <<coordsEv, kernelEv>>)
       ELSE Return(TimesPhase(TimesPhase(fld, -(k * s.center[3])), -(k * s.center[3])),
                   <<coordsEv, kernelEv>>)

\* get_field(s), nested in _calc_field(self, scatterer, schema)
get_field(self, scatterer, schema, env, s) ==
  IF scatterer.kind = "Sphere" /\ scatterer.center = None
  THEN Raise(Exception("MissingParameter", <<"center">>), <<>>)
  ELSE
    LET k == wavevec(schema)
        pol == schema.illum_polarization[1]
        coordsEv == Event("sphere_coords", s, s.center, k, pol)
        kernelEv == Event("_raw_fields", s, s.center, k, pol)
        positions == sphere_coords(schema, s.center, k)
        fld == _raw_fields(positions, s, k, schema.medium_index, pol)
    IN IF s.center = None /\ env.origin_required
       THEN Raise(Exception("ValueError", <<>>), <<coordsEv>>)
       ELSE IF s.center = None
       THEN Raise(Exception("TypeError", <<>>), <<coordsEv, kernelEv>>)
       ELSE Return(TimesPhase(fld, -(k * s.center[3])), <<coordsEv, kernelEv>>)

\* the loop running over scatterers instead of scatterers[1:]: the first
\* component is added twice
RECURSIVE Superpose_FirstTwice(_, _, _, _, _, _, _)
Superpose_FirstTwice(self, scatterer, schema, env, scatterers, j, acc) ==
  IF j > Len(scatterers) THEN acc
  ELSE LET o == get_field(self, scatterer, schema, env, scatterers[j])
           sum == IF j = 1 THEN o.val (+) o.val ELSE acc.val (+) o.val
       IN IF o.err # NoError
          THEN Raise(o.err, acc.events \o o.events)
          ELSE Superpose_FirstTwice(self, scatterer, schema, env, scatterers, j + 1,
                                    Return(sum, acc.events \o o.events))

\* field = get_field(scatterers[0]); for s in scatterers[1:]: field += get_field(s)
RECURSIVE Superpose(_, _, _, _, _, _, _)
Superpose(self, scatterer, schema, env, scatterers, j, acc) ==
  IF j > Len(scatterers) THEN acc
  ELSE LET o == get_field(self, scatterer, schema, env, scatterers[j])
       IN IF o.err # NoError
          THEN Raise(o.err, acc.events \o o.events)
          ELSE Superpose(self, scatterer, schema, env, scatterers, j + 1,
                         Return(acc.val (+) o.val, acc.events \o o.events))

\* the chain with its first two links swapped: a composite is always superposed
CalcFieldOne_SuperposeFirst(self, scatterer, schema, env) ==
  LET asked == <<Event("_can_handle", scatterer, None, 0, 0)>>
  IN IF scatterer.kind = "Scatterers" /\ Len(get_component_list(scatterer)) > 0
     THEN Superpose(self, scatterer, schema, env, get_component_list(scatterer), 1,
                    Return(EmptyBag, asked))
     ELSE IF _can_handle(self, scatterer)
     THEN LET o == get_field(self, scatterer, schema, env, scatterer)
          IN Outcome(o.err, o.val, asked \o o.events)
     ELSE Raise(Exception("TheoryNotCompatibleError", <<self, scatterer>>), asked)

\* the chain asking _can_handle about every component before superposing
CalcFieldOne_CheckComponents(self, scatterer, schema, env) ==
  LET asked == <<Event("_can_handle", scatterer, None, 0, 0)>>
  IN IF _can_handle(self, scatterer)
     THEN LET o == get_field(self, scatterer, schema, env, scatterer)
          IN Outcome(o.err, o.val, asked \o o.events)
     ELSE IF scatterer.kind = "Scatterers"
     THEN LET scatterers == get_component_list(scatterer)
          IN IF Len(scatterers) = 0
             THEN Raise(Exception("IndexError", <<>>), asked)
             ELSE IF \E j \in 1..Len(scatterers) : ~_can_handle(self, scatterers[j])
             THEN Raise(Exception("TheoryNotCompatibleError", <<self, scatterer>>), asked)
             ELSE Superpose(self, scatterer, schema, env, scatterers, 1,
                            Return(EmptyBag, asked))
     ELSE Raise(Exception("TheoryNotCompatibleError", <<self, scatterer>>), asked)

\* the else branch of _calc_field: one illumination wavelength
CalcFieldOne(self, scatterer, schema, env) ==
  LET asked == <<Event("_can_handle", scatterer, None, 0, 0)>>
  IN IF _can_handle(self, scatterer)
     THEN LET o == get_field(self, scatterer, schema, env, scatterer)
          IN Outcome(o.err, o.val, asked \o o.events)
     ELSE IF scatterer.kind = "Scatterers"
     THEN LET scatterers == get_component_list(scatterer)
          IN IF Len(scatterers) = 0
             THEN Raise(Exception("IndexError", <<>>), asked)
             ELSE Superpose(self, scatterer, schema, env, scatterers, 1,
                            Return(EmptyBag, asked))
     ELSE Raise(Exception("TheoryNotCompatibleError", <<self, scatterer>>), asked)

\* narrowing that takes the wavelength of the channel but always the first
\* channel's polarization
Narrowed_FirstPolarization(schema, illum) ==
  [schema EXCEPT !.illum_wavelen = <<schema.illum_wavelen[illum]>>,
                 !.illum_polarization = <<schema.illum_polarization[1]>>]

\* update_metadata(schema, illum_wavelen=..sel(illumination=illum)..,
\*                 illum_polarization=..sel(illumination=illum)..)
Narrowed(schema, illum) ==
  [schema EXCEPT !.illum_wavelen = <<schema.illum_wavelen[illum]>>,
                 !.illum_polarization = <<schema.illum_polarization[illum]>>]

\* every behaviour is one call: the functions keep nothing between calls
Idle == pc = "idle"

\* _calc_field with a single illumination wavelength
CalcField ==
  /\ Idle
  /\ \E self \in TheorySet, scatterer \in ScattererSet, schema \in ScalarSchemaSet,
        env \in EnvSet :
       /\ Len(schema.illum_wavelen) = 1
       /\ LET o == CalcFieldOne(self, scatterer, schema, env)
          IN /\ ret' = [err |-> o.err, val |-> o.val]
             /\ events' = o.events
       /\ call' = [op |-> "_calc_field", self |-> self, scatterer |-> scatterer,
                   schema |-> schema, env |-> env]
  /\ pc' = "done"
  /\ i' = 0
  /\ field' = <<>>

\* _calc_field with several wavelengths: field = []
CalcFieldChannels ==
  /\ Idle
  /\ \E self \in TheorySet, scatterer \in ScattererSet, schema \in MultiSchemaSet,
        env \in EnvSet :
       /\ Len(schema.illum_wavelen) > 1
       /\ call' = [op |-> "_calc_field", self |-> self, scatterer |-> scatterer,
                   schema |-> schema, env |-> env]
  /\ pc' = "channels"
  /\ i' = 1
  /\ field' = <<>>
  /\ events' = <<>>
  /\ ret' = [err |-> NoError, val |-> <<>>]

\* one turn of: for illum in schema.illum_wavelen.illumination: field.append(...)
CalcFieldIllum ==
  /\ pc = "channels"
  /\ i <= Len(call.schema.illum_wavelen)
  /\ LET o == CalcFieldOne(call.self, select(call.scatterer, i),
                           Narrowed(call.schema, i), call.env)
     IN /\ events' = events \o o.events
        /\ IF o.err # NoError
           THEN /\ ret' = [err |-> o.err, val |-> <<>>]
                /\ pc' = "done"
                /\ UNCHANGED <<i, field>>
           ELSE /\ field' = Append(field, o.val)
                /\ i' = i + 1
                /\ UNCHANGED <<pc, ret>>
  /\ UNCHANGED call

\* field = clean_concat(field, dim = schema.illum_wavelen.illumination); return field
CalcFieldConcat ==
  /\ pc = "channels"
  /\ i > Len(call.schema.illum_wavelen)
  /\ ret' = [err |-> NoError,
             val |-> clean_concat(field, [c \in 1..Len(call.schema.illum_wavelen) |-> c])]
  /\ pc' = "done"
  /\ UNCHANGED <<call, i, field, events>>

\* _calc_cross_sections(self, scatterer, medium_wavevec, medium_index,
\* illum_polarization); raw_sections is what self._raw_cross_sections returns
_calc_cross_sections(self, scatterer, raw_sections) ==
  [data |-> raw_sections, dims |-> <<"cross_section">>,
   coords |-> [cross_section |-> <<"scattering", "absorbtion", "extinction", "assymetry">>]]

RawSectionSet == [1..4 -> {0, 1, 2}]

CalcCrossSections ==
  /\ Idle
  /\ \E self \in TheorySet, scatterer \in SphereSet, raw_sections \in RawSectionSet :
       /\ call' = [op |-> "_calc_cross_sections", self |-> self, scatterer |-> scatterer,
                   raw_sections |-> raw_sections]
       /\ ret' = [err |-> NoError,
                  val |-> _calc_cross_sections(self, scatterer, raw_sections)]
  /\ pc' = "done"
  /\ UNCHANGED <<i, field, events>>

\* ---------------------------------------------------------------- math.py
Coords == {0 - 1, 0, 2}
PointSet == UNION {[1..n -> Coords] : n \in 1..MaxDim}

Values == {0, 1, 3}
Arrays(n) == [1..n -> Values]

RECURSIVE SumSeq(_)
SumSeq(a) == IF Len(a) = 0 THEN 0 ELSE a[1] + SumSeq(Tail(a))

\* shapes (n,) and (m,) broadcast when n = m or one of them is 1
Broadcastable(a, b) == Len(a) = Len(b) \/ Len(a) = 1 \/ Len(b) = 1
At(a, j) == IF Len(a) = 1 THEN a[1] ELSE a[j]
Minus(a, b) ==
  [j \in 1..(IF Len(a) >= Len(b) THEN Len(a) ELSE Len(b)) |-> At(a, j) - At(b, j)]

\* np.sqrt(x), x >= 0, kept as its radicand
Sqrt(x) == [sqrt |-> x]

DefaultP2 == <<0, 0, 0>>

cartesian_distance(p1, p2) ==
  IF ~Broadcastable(p1, p2)
  THEN [err |-> Exception("ValueError", <<>>), val |-> Sqrt(0)]
  ELSE LET d == Minus(p1, p2)
       IN [err |-> NoError, val |-> Sqrt(SumSeq([j \in 1..Len(d) |-> d[j] * d[j]]))]

\* cartesian_distance(p1, p2)
CartesianDistance ==
  /\ Idle
  /\ \E p1 \in PointSet, p2 \in PointSet :
       /\ call' = [op |-> "cartesian_distance", p1 |-> p1, p2 |-> p2, defaulted |-> FALSE]
       /\ ret' = cartesian_distance(p1, p2)
  /\ pc' = "done"
  /\ UNCHANGED <<i, field, events>>

\* cartesian_distance(p1)
CartesianDistanceDefault ==
  /\ Idle
  /\ \E p1 \in PointSet :
       /\ call' = [op |-> "cartesian_distance", p1 |-> p1, p2 |-> DefaultP2,
                   defaulted |-> TRUE]
       /\ ret' = cartesian_distance(p1, DefaultP2)
  /\ pc' = "done"
  /\ UNCHANGED <<i, field, events>>

\* float64 values: exact fractions n/d (d > 0, lowest terms), nan, inf, -inf
RECURSIVE GCD(_, _)
GCD(a, b) == IF b = 0 THEN a ELSE GCD(b, a % b)
Abs(x) == IF x < 0 THEN 0 - x ELSE x
Frac(n, d) ==
  LET g == GCD(Abs(n), Abs(d))
      sg == IF d < 0 THEN 0 - 1 ELSE 1
  IN [cls |-> "num", n |-> (sg * n) \div g, d |-> (sg * d) \div g]
NaN == [cls |-> "nan", n |-> 0, d |-> 0]
Inf == [cls |-> "inf", n |-> 0, d |-> 0]
NegInf == [cls |-> "-inf", n |-> 0, d |-> 0]
Int2F(x) == Frac(x, 1)

FAdd(x, y) == Frac(x.n * y.d + y.n * x.d, x.d * y.d)
FSub(x, y) == Frac(x.n * y.d - y.n * x.d, x.d * y.d)
FMul(x, y) == Frac(x.n * y.n, x.d * y.d)
\* x / y for finite x >= 0 and finite y >= 0
FDiv(x, y) ==
  IF y.n = 0 THEN (IF x.n = 0 THEN NaN ELSE Inf)
  ELSE Frac(x.n * y.d, x.d * y.n)
\* 1 - q
OneMinus(q) ==
  IF q.cls = "nan" THEN NaN
  ELSE IF q.cls = "inf" THEN NegInf
  ELSE FSub(Int2F(1), q)

RECURSIVE FSum(_)
FSum(a) == IF Len(a) = 0 THEN Int2F(0) ELSE FAdd(a[1], FSum(Tail(a)))

\* data.mean()
Mean(data) == Frac(SumSeq(data), Len(data))

\* rsq with the mean taken out of the residuals too
rsq_ResidualAboutMean(fit, data) ==
  LET dev == [j \in 1..Len(data) |-> FSub(Int2F(data[j]), Mean(data))]
      res == [j \in 1..Len(fit) |-> FSub(Int2F(fit[j]), Mean(data))]
      ss_res == FSum([j \in 1..Len(res) |-> FMul(res[j], res[j])])
      ss_tot == FSum([j \in 1..Len(dev) |-> FMul(dev[j], dev[j])])
  IN OneMinus(FDiv(ss_res, ss_tot))

\* float(1 - ((data - fit)**2).sum()/((data - data.mean())**2).sum())
rsq(fit, data) ==
  LET resid == Minus(data, fit)
      dev == [j \in 1..Len(data) |-> FSub(Int2F(data[j]), Mean(data))]
      ss_res == Int2F(SumSeq([j \in 1..Len(resid) |-> resid[j] * resid[j]]))
      ss_tot == FSum([j \in 1..Len(dev) |-> FMul(dev[j], dev[j])])
  IN OneMinus(FDiv(ss_res, ss_tot))

Rsq ==
  /\ Idle
  /\ \E n \in 1..MaxLen : \E fit \in Arrays(n), data \in Arrays(n) :
       /\ call' = [op |-> "rsq", fit |-> fit, data |-> data]
       /\ ret' = [err |-> NoError, val |-> rsq(fit, data)]
  /\ pc' = "done"
  /\ UNCHANGED <<i, field, events>>

Init ==
  /\ pc = "idle"
  /\ call = [op |-> "none"]
  /\ i = 0
  /\ field = <<>>
  /\ events = <<>>
  /\ ret = [err |-> NoError, val |-> <<>>]

Next ==
  \/ CalcField
  \/ CalcFieldChannels
  \/ CalcFieldIllum
  \/ CalcFieldConcat

Spec == Init /\ [][Next]_vars

NextCross == CalcCrossSections

SpecCross == Init /\ [][NextCross]_vars

NextMath ==
  \/ CartesianDistance
  \/ CartesianDistanceDefault
  \/ Rsq

SpecMath == Init /\ [][NextMath]_vars

\* ------------------------------------------- what a finished call shows
Called == pc # "idle" /\ call.op = "_calc_field"
Finished == pc = "done" /\ call.op = "_calc_field"
Returned == Finished /\ ret.err = NoError
Channels == Len(call.schema.illum_wavelen)
Scalar == Channels = 1

EventsOf(ev) == SelectSeq(events, LAMBDA e : e.ev = ev)
KernelCalls == EventsOf("_raw_fields")
CoordCalls == EventsOf("sphere_coords")
CanHandleCalls == EventsOf("_can_handle")
Scats(evs) == [j \in 1..Len(evs) |-> evs[j].scat]

IsPrefix(a, b) == Len(a) <= Len(b) /\ \A j \in 1..Len(a) : a[j] = b[j]

RECURSIVE BagSum(_)
BagSum(bags) == IF Len(bags) = 0 THEN EmptyBag ELSE bags[1] (+) BagSum(Tail(bags))

\* the scatterer and the one-wavelength schema of channel c (the call itself
\* when the schema is scalar)
ChannelScatterer(c) == IF Scalar THEN call.scatterer ELSE select(call.scatterer, c)
ChannelSchema(c) ==
  [illum_wavelen |-> <<call.schema.illum_wavelen[c]>>,
   illum_polarization |-> <<call.schema.illum_polarization[c]>>,
   medium_index |-> call.schema.medium_index]
ChannelField(c) == IF Scalar THEN ret.val ELSE ret.val.data[c]
ChannelKernelCalls(c) ==
  IF Scalar THEN KernelCalls
  ELSE SelectSeq(KernelCalls, LAMBDA e : e.scat.sel = c)

\* the raw kernel output for s under a one-wavelength schema, multiplied by
\* hand by exp(-i*k*z_center), k = 2*pi*medium_index/illum_wavelen
PhaseCorrectedRaw(s, schema) ==
  LET k == (TwoPi * schema.medium_index) \div schema.illum_wavelen[1]
      raw == [pos |-> [origin |-> s.center, wavevec |-> k], scat |-> s,
              medium_wavevec |-> k, medium_index |-> schema.medium_index,
              illum_polarization |-> schema.illum_polarization[1]]
  IN SetToBag({[raw |-> raw, ph |-> 0 - k * s.center[3]]})

\* C1: with one illumination wavelength the fallback chain is decided once
\* (_can_handle is asked once, about the full scatterer); if it answers yes
\* the kernel is called on the full scatterer and nothing else, once when a
\* field is returned; else for a composite the kernel is called on the
\* elements of get_component_list() in order, once each when a field is
\* returned, and that field is the sum of the elements' fields; else the call
\* fails with TheoryNotCompatibleError(theory, scatterer), having called
\* neither the kernel nor the coordinate transform, and returns no field.
C1_FallbackChain ==
  (Finished /\ Scalar) =>
    LET s == call.scatterer
        parts == get_component_list(s)
    IN /\ Scats(CanHandleCalls) = <<s>>
       /\ _can_handle(call.self, s) =>
            /\ IsPrefix(Scats(KernelCalls), <<s>>)
            /\ ret.err = NoError => Scats(KernelCalls) = <<s>>
       /\ (~_can_handle(call.self, s) /\ s.kind = "Scatterers") =>
            /\ IsPrefix(Scats(KernelCalls), parts)
            /\ ret.err = NoError =>
                 /\ Scats(KernelCalls) = parts
                 /\ ret.val = BagSum([j \in 1..Len(parts) |->
                                        PhaseCorrectedRaw(parts[j], call.schema)])
       /\ (~_can_handle(call.self, s) /\ s.kind # "Scatterers") =>
            /\ ret.err = Exception("TheoryNotCompatibleError", <<call.self, s>>)
            /\ KernelCalls = <<>>
            /\ CoordCalls = <<>>
            /\ ret.val = EmptyBag

C1_Witness ==
  /\ Returned /\ Scalar
  /\ ~_can_handle(call.self, call.scatterer)
  /\ call.scatterer.kind = "Scatterers"
  /\ Len(KernelCalls) = 2
  /\ "Sphere" \in call.self.handles

\* C2 as claimed, on the composites where it asks least (at least one
\* component, every component with a center): whenever the kernel cannot
\* handle a composite directly, compute_field succeeds on every component by
\* itself and compute_field on the composite is the sum of those fields.
C2_Original ==
  Finished =>
    \A c \in 1..Channels :
      LET s == ChannelScatterer(c)
          parts == get_component_list(s)
          alone == [j \in 1..Len(parts) |->
                      CalcFieldOne(call.self, parts[j], ChannelSchema(c), call.env)]
      IN (/\ s.kind = "Scatterers" /\ ~_can_handle(call.self, s)
          /\ Len(parts) > 0 /\ \A j \in 1..Len(parts) : parts[j].center # None)
         => /\ \A j \in 1..Len(parts) : alone[j].err = NoError
            /\ ret.err = NoError
            /\ ChannelField(c) = BagSum([j \in 1..Len(parts) |-> alone[j].val])

\* C2 amended: for a composite with at least one component that the kernel
\* cannot handle directly, if single-channel compute_field succeeds on every
\* component by itself then compute_field on the composite succeeds and is,
\* channel by channel, the sum of the components' fields.
C2_Superposition ==
  (Finished /\ call.scatterer.kind = "Scatterers"
     /\ ~_can_handle(call.self, call.scatterer)
     /\ Len(get_component_list(call.scatterer)) > 0
     /\ \A c \in 1..Channels : \A j \in 1..Len(get_component_list(call.scatterer)) :
          CalcFieldOne(call.self, get_component_list(ChannelScatterer(c))[j],
                       ChannelSchema(c), call.env).err = NoError)
  => /\ ret.err = NoError
     /\ \A c \in 1..Channels :
          LET parts == get_component_list(ChannelScatterer(c))
          IN ChannelField(c) =
               BagSum([j \in 1..Len(parts) |->
                         CalcFieldOne(call.self, parts[j], ChannelSchema(c), call.env).val])

C2_Witness ==
  /\ Returned /\ Scalar
  /\ call.scatterer.kind = "Scatterers"
  /\ call.self.handles = {"Sphere"}
  /\ Len(get_component_list(call.scatterer)) = 2
  /\ call.scatterer.parts[1] # call.scatterer.parts[2]

\* C3: with N > 1 illumination channels a returned result has exactly N
\* entries along the illumination axis, in the schema's channel order, and
\* entry c is the single-channel result for the scatterer's sub-state of
\* channel c and the schema narrowed to channel c's wavelength and
\* polarization.
C3_PerChannel ==
  (Returned /\ Channels > 1) =>
    /\ Len(ret.val.data) = Channels
    /\ ret.val.illumination = [c \in 1..Channels |-> c]
    /\ \A c \in 1..Channels :
         LET one == CalcFieldOne(call.self, select(call.scatterer, c),
                                 ChannelSchema(c), call.env)
         IN one.err = NoError /\ ret.val.data[c] = one.val

C3_Witness ==
  /\ Returned /\ Channels = 2
  /\ call.schema.illum_wavelen[1] # call.schema.illum_wavelen[2]
  /\ call.schema.illum_polarization[1] # call.schema.illum_polarization[2]
  /\ call.scatterer.kind = "Sphere"

NoCenterSphere == call.scatterer.kind = "Sphere" /\ call.scatterer.center = None

\* C4 as claimed: for a sphere with no center compute_field fails with
\* MissingParameter("center") whatever the theory and the schema, and neither
\* sphere_coords nor the kernel has been called.
C4_Original ==
  (Finished /\ NoCenterSphere) =>
    /\ ret.err = Exception("MissingParameter", <<"center">>)
    /\ CoordCalls = <<>> /\ KernelCalls = <<>>

\* C4 amended: for a sphere with no center compute_field fails, whatever the
\* schema, with MissingParameter("center") when the theory can handle the
\* sphere and with TheoryNotCompatibleError when it cannot; in both cases
\* neither sphere_coords nor the kernel is ever called.
C4_MissingCenter ==
  (Called /\ NoCenterSphere) =>
    /\ CoordCalls = <<>> /\ KernelCalls = <<>>
    /\ pc = "done" =>
         /\ _can_handle(call.self, call.scatterer) =>
              ret.err = Exception("MissingParameter", <<"center">>)
         /\ ~_can_handle(call.self, call.scatterer) =>
              ret.err.type = "TheoryNotCompatibleError"

C4_Witness ==
  /\ Finished /\ NoCenterSphere
  /\ ret.err.type = "MissingParameter"
  /\ Channels = 2

\* C5: in the superposition path a component without a center makes
\* compute_field fail with MissingParameter("center"), and neither
\* sphere_coords nor the kernel is called for that component.
C5_ComponentCenter ==
  (Finished /\ Scalar /\ call.scatterer.kind = "Scatterers"
     /\ ~_can_handle(call.self, call.scatterer)
     /\ \E j \in 1..Len(call.scatterer.parts) : call.scatterer.parts[j].center = None)
  => /\ ret.err = Exception("MissingParameter", <<"center">>)
     /\ \A j \in 1..Len(events) : events[j].scat.center # None

\* C6: in a returned field every kernel output occurs once, multiplied once by
\* exp(-i*k*z_center), z_center the z of the center of the scatterer given to
\* that kernel call and k the wavevector of the one-wavelength schema of that
\* call; nothing else is in the field, so no phase is applied to a sum or to
\* the concatenated channels.
C6_PhaseOnce ==
  Returned =>
    \A c \in 1..Channels :
      LET made == ChannelKernelCalls(c)
      IN /\ Len(made) > 0
         /\ ChannelField(c) = BagSum([j \in 1..Len(made) |->
                                        PhaseCorrectedRaw(made[j].scat, ChannelSchema(c))])

C6_Witness ==
  /\ Returned /\ Scalar
  /\ call.scatterer = Sphere(<<1, 0, 2>>)
  /\ call.schema.illum_wavelen[1] = 1
  /\ \E t \in DOMAIN ret.val : t.ph = 0 - 4

\* C10: each one-wavelength _calc_field asks _can_handle once, about its own
\* top-level scatterer and never about a component; in the superposition path
\* the components go to the kernel in declared order, at most once each and
\* all of them when a field is returned, and the call never fails with
\* TheoryNotCompatibleError, also when the theory could not handle a component.
C10_CanHandleOnce ==
  Finished =>
    /\ \A j \in 1..Len(CanHandleCalls) :
         CanHandleCalls[j].scat = ChannelScatterer(j)
    /\ Len(CanHandleCalls) = (IF Scalar THEN 1 ELSE Len(field) + (IF ret.err = NoError THEN 0 ELSE 1))
    /\ (call.scatterer.kind = "Scatterers" /\ ~_can_handle(call.self, call.scatterer)) =>
         /\ ret.err.type # "TheoryNotCompatibleError"
         /\ \A c \in 1..Channels :
              /\ IsPrefix(Scats(ChannelKernelCalls(c)), get_component_list(ChannelScatterer(c)))
              /\ ret.err = NoError =>
                   Scats(ChannelKernelCalls(c)) = get_component_list(ChannelScatterer(c))

C10_Witness ==
  /\ Returned /\ Scalar
  /\ call.scatterer.kind = "Scatterers"
  /\ call.self.handles = {}
  /\ Len(KernelCalls) = 2


\* C7: compute_cross_sections returns the kernel's 4 raw values unchanged and
\* in order, labelled along one axis with exactly the labels scattering,
\* absorption, extinction, asymmetry, whatever the scatterer.
C7_CrossSections ==
  (pc = "done" /\ call.op = "_calc_cross_sections") =>
    /\ ret.err = NoError
    /\ ret.val.data = call.raw_sections
    /\ ret.val.dims = <<"cross_section">>
    /\ ret.val.coords.cross_section = <<"scattering", "absorption", "extinction", "asymmetry">>

SquaredNorm(p) == SumSeq([j \in 1..Len(p) |-> p[j] * p[j]])

\* C8: for points of any dimension N >= 1, cartesian_distance(p1) is the
\* Euclidean norm of p1, and cartesian_distance(p1, p2) for two N-dimensional
\* points is the Euclidean norm of p1 - p2, symmetric, and 0 when p1 = p2.
C8_AnyDimension ==
  (pc = "done" /\ call.op = "cartesian_distance") =>
    /\ call.defaulted =>
         ret.err = NoError /\ ret.val = Sqrt(SquaredNorm(call.p1))
    /\ (~call.defaulted /\ Len(call.p1) = Len(call.p2)) =>
         /\ ret.err = NoError
         /\ ret.val = Sqrt(SquaredNorm([j \in 1..Len(call.p1) |-> call.p1[j] - call.p2[j]]))
         /\ ret = cartesian_distance(call.p2, call.p1)
         /\ call.p1 = call.p2 => ret.val = Sqrt(0)

FitIsData == pc = "done" /\ call.op = "rsq" /\ call.fit = call.data
Constant(a) == \A j \in 1..Len(a) : a[j] = a[1]

\* C9 as claimed: rsq(data, data) = 1 for every non-empty data, constant
\* data included.
C9_Original == FitIsData => ret.val = Int2F(1)

\* C9 amended: rsq(data, data) = 1 for every non-empty data whose entries
\* are not all equal; when they are all equal the result is 0/0, nan.
C9_PerfectFit ==
  FitIsData =>
    /\ ~Constant(call.data) => ret.val = Int2F(1)
    /\ Constant(call.data) => ret.val = NaN

C9_Witness == FitIsData /\ ~Constant(call.data) /\ Len(call.data) = 3

====
